---- MODULE Spec2Model ----
(***************************************************************************)
(* Minmeet browser client: AudioHandler (static/js/audio-handler.js) and   *)
(* MeetingApp (static/js/app.js) as one state machine.  Every action is    *)
(* one task of the browser event loop: a method call, a timer callback, a  *)
(* recorder event, or the continuation of an await.                        *)
(***************************************************************************)
EXTENDS Integers, Sequences, FiniteSets, TLC

\* ----------------------------------------------------------------- bounds
MaxTicks    == 2   \* segmentation ticks that request data, per recording
MaxSessions == 2   \* startMeeting calls that reach the server
MaxPolls    == 2   \* poll fetches in flight at once
MaxFinalizes == 2  \* status "completed" payloads the server sends per session
MaxStops    == 2   \* stopRecording calls per recording
MaxTimers   == 2   \* poll timers alive at once

VARIABLES
    \* ---- AudioHandler fields (audio-handler.js constructor)
    mediaRecorder,      \* "null", or the state of this.mediaRecorder: "inactive" | "recording"
    audioContext,       \* "null" | "running" | "closed"
    stream,             \* "null" | "live" | "ended" (the tracks of this.stream)
    chunks,             \* this.chunks: sequence of buffered blobs (buffer numbers)
    isRecording,
    chunkTimer,         \* TRUE iff this.chunkTimer holds an interval handle
    visualizerInterval, \* TRUE iff this.visualizerInterval holds an interval handle
    onChunkReady,       \* "null" | "listener" | "upload" (the callback installed)
    \* ---- browser side of the AudioHandler
    intervals,          \* segmentation setInterval timers the browser still fires
    visTimers,          \* visualization setInterval timers the browser still fires
    graceReads,         \* pending setTimeout(() => _sendChunk(), 100) callbacks
    recQueue,           \* recorder tasks queued: "data" (requestData) | "stop" (stop)
    \* ---- MeetingApp fields (app.js constructor)
    meetingId,          \* 0 is null
    isActive,
    eventSource,        \* this.eventSource: 0 is null, else the number of the stream
    pollingInterval,    \* this.pollingInterval: "null", or the timer it names: "live" | "cleared"
    transcriptData,     \* sequence of entries [id, text]
    qaData,
    \* ---- page (this.ui)
    screen,             \* "setup" | "meeting" | "completion"
    startBtnDisabled,
    stopBtnDisabled,
    transcriptContainer,\* rendered transcript entries (children of the container)
    qaContainer,        \* rendered QA items
    participantCount,   \* number shown in the participant count, 0 before any
    \* ---- browser side of the MeetingApp
    hasEventSource,     \* typeof EventSource !== 'undefined'
    esState,            \* stream number -> "connecting" | "open" | "closed"
    pollTimers,         \* number of poll setInterval timers the browser still fires
    sessions,           \* meetings the server has created (the last meeting_id)
    pollFetches,        \* poll fetches in flight
    startPc,            \* startMeeting: "idle" | "initializing" | "creating"
    stopFetches,        \* stopMeeting calls awaiting the stop endpoint
    uploadFetches,      \* upload requests in flight
    \* ---- observation (what the callbacks and the server saw)
    emitted,            \* onChunkReady calls of this recording, in order
    uploads,            \* upload requests of this session, in order
    rlog,               \* marks of the current recording, see RLog0
    slog                \* marks of the current session, see SLog0

audioVars == <<mediaRecorder, audioContext, stream, chunks, isRecording, chunkTimer,
               visualizerInterval, onChunkReady, intervals, visTimers, graceReads,
               recQueue>>
appVars   == <<meetingId, isActive, eventSource, pollingInterval, transcriptData, qaData>>
uiVars    == <<screen, startBtnDisabled, stopBtnDisabled, transcriptContainer,
               qaContainer, participantCount>>
netVars   == <<hasEventSource, esState, pollTimers, sessions, pollFetches, startPc,
               stopFetches, uploadFetches>>
obsVars   == <<emitted, uploads, rlog, slog>>
vars      == <<audioVars, appVars, uiVars, netVars, obsVars>>

\* Marks of the current recording (reset by startRecording).
RLog0 == [ ticks     |-> 0,       \* segmentation ticks that requested data
           nextBuf   |-> 1,       \* number of the next non-empty buffer delivered
           captured  |-> FALSE,   \* the encoder delivered a non-empty buffer
           stopCalls |-> 0,       \* stopRecording calls
           sizes     |-> <<>>,    \* size delivered for each requestData, in order
           stopSize  |-> -1 ]     \* size delivered by the stop flush, -1 before it

\* Timer periods of the handler, in ms.
chunkInterval == 5000   \* this.chunkInterval
graceDelay    == 100    \* setTimeout(() => this._sendChunk(), 100)

\* Sizes of the blob a dataavailable event can carry (0: nothing gathered).
BlobSizes == {0, 1}

\* ------------------------------------------------------------ AudioHandler

\* MeetingApp.uploadAudioChunk(blob, isFinal), called as the onChunkReady callback:
\* no request without a meeting id, else one POST .../audio (never awaited by the
\* caller).
uploadAudioChunk(bufs, isFinal) ==
    IF meetingId = 0
    THEN UNCHANGED <<uploads, uploadFetches>>
    ELSE /\ uploads' = Append(uploads, [bufs |-> bufs, is_final |-> isFinal])
         /\ uploadFetches' = uploadFetches + 1

\* _sendChunk that leaves this.chunks as it is after the blob is built.
sendChunkNoClear(cs, isFinal, by) ==
    /\ chunks' = cs
    /\ IF cs = <<>> \/ onChunkReady = "null"
       THEN UNCHANGED <<emitted, uploads, uploadFetches>>
       ELSE /\ emitted' = Append(emitted, [bufs |-> cs, isFinal |-> isFinal,
                                           by |-> by, stops |-> rlog.stopCalls])
            /\ IF onChunkReady = "upload"
               THEN uploadAudioChunk(cs, isFinal)
               ELSE UNCHANGED <<uploads, uploadFetches>>

\* AudioHandler._sendChunk(isFinal) run on the buffer list cs (this.chunks at the
\* call); by names the caller for the record kept in emitted.
sendChunk(cs, isFinal, by) ==
    IF cs = <<>>
    THEN /\ chunks' = cs
         /\ UNCHANGED <<emitted, uploads, uploadFetches>>
    ELSE /\ chunks' = <<>>
         /\ IF onChunkReady = "null"
            THEN UNCHANGED <<emitted, uploads, uploadFetches>>
            ELSE /\ emitted' = Append(emitted, [bufs |-> cs, isFinal |-> isFinal,
                                                by |-> by, stops |-> rlog.stopCalls])
                 /\ IF onChunkReady = "upload"
                    THEN uploadAudioChunk(cs, isFinal)
                    ELSE UNCHANGED <<uploads, uploadFetches>>

\* AudioHandler.initialize(): "ok"; "denied" (getUserMedia rejects, nothing was
\* assigned); "unsupported" (new MediaRecorder throws after the stream and the
\* audio context were assigned).
InitOutcomes == {"ok", "denied", "unsupported"}

initialize(outcome) ==
    /\ stream' = IF outcome = "denied" THEN stream ELSE "live"
    /\ audioContext' = IF outcome = "denied" THEN audioContext ELSE "running"
    /\ mediaRecorder' = IF outcome = "ok" THEN "inactive" ELSE mediaRecorder

\* AudioHandler.startRecording(cb) on an initialized handler whose recorder is
\* inactive (mediaRecorder.start() succeeds).
startRecording(cb) ==
    /\ onChunkReady' = cb
    /\ isRecording' = TRUE
    /\ chunks' = <<>>
    /\ mediaRecorder' = "recording"
    /\ chunkTimer' = TRUE
    /\ intervals' = intervals + 1
    /\ visualizerInterval' = TRUE
    /\ visTimers' = visTimers + 1
    /\ emitted' = <<>>
    /\ rlog' = RLog0

\* AudioHandler.stopRecording().
stopRecording ==
    /\ isRecording' = FALSE
    /\ chunkTimer' = FALSE
    /\ intervals' = IF chunkTimer THEN intervals - 1 ELSE intervals
    /\ visualizerInterval' = FALSE
    /\ visTimers' = IF visualizerInterval THEN visTimers - 1 ELSE visTimers
    /\ IF mediaRecorder \notin {"null", "inactive"}
       THEN /\ mediaRecorder' = "inactive"
            /\ recQueue' = Append(recQueue, "stop")
       ELSE UNCHANGED <<mediaRecorder, recQueue>>
    /\ stream' = IF stream = "null" THEN "null" ELSE "ended"
    /\ audioContext' = IF audioContext = "null" THEN "null" ELSE "closed"
    /\ sendChunk(chunks, TRUE, "stop")
    /\ rlog' = [rlog EXCEPT !.stopCalls = @ + 1]
    /\ UNCHANGED <<onChunkReady, graceReads>>

\* The chunkTimer callback (setInterval, chunkInterval): when the recorder records,
\* requestData() and a grace-delay read graceDelay later.  Timers run in the order
\* they fall due, so a tick finds the read of the tick before it done.
Tick ==
    /\ intervals > 0
    /\ graceDelay < chunkInterval => graceReads = 0
    /\ IF mediaRecorder = "recording"
       THEN /\ rlog.ticks < MaxTicks
            /\ recQueue' = Append(recQueue, "data")
            /\ graceReads' = graceReads + 1
            /\ rlog' = [rlog EXCEPT !.ticks = @ + 1]
       ELSE UNCHANGED <<recQueue, graceReads, rlog>>
    /\ UNCHANGED <<mediaRecorder, audioContext, stream, chunks, isRecording, chunkTimer,
                   visualizerInterval, onChunkReady, intervals, visTimers>>
    /\ UNCHANGED <<appVars, uiVars, netVars, emitted, uploads, slog>>

\* The grace-delay callback: setTimeout(() => this._sendChunk(), 100).
GraceRead ==
    /\ graceReads > 0
    /\ graceReads' = graceReads - 1
    /\ sendChunk(chunks, FALSE, "grace")
    /\ UNCHANGED rlog
    /\ UNCHANGED <<mediaRecorder, audioContext, stream, isRecording, chunkTimer,
                   visualizerInterval, onChunkReady, intervals, visTimers, recQueue>>
    /\ UNCHANGED <<appVars, uiVars, slog>>
    /\ UNCHANGED <<hasEventSource, esState, pollTimers, sessions, pollFetches,
                   startPc, stopFetches>>

\* ondataavailable without the size test: every blob is pushed.
PushedAny(sz) == Append(chunks, rlog.nextBuf)

\* ondataavailable: a blob of size > 0 is pushed, an empty one is dropped.
Pushed(sz) == IF sz > 0 THEN Append(chunks, rlog.nextBuf) ELSE chunks

\* The recorder task queued by requestData(): one dataavailable event.
DataAvailable ==
    /\ recQueue # <<>>
    /\ Head(recQueue) = "data"
    /\ \E sz \in BlobSizes :
         /\ chunks' = Pushed(sz)
         /\ rlog' = [rlog EXCEPT !.nextBuf = IF sz > 0 THEN @ + 1 ELSE @,
                                 !.captured = @ \/ sz > 0,
                                 !.sizes = Append(@, sz)]
    /\ recQueue' = Tail(recQueue)
    /\ UNCHANGED <<mediaRecorder, audioContext, stream, isRecording, chunkTimer,
                   visualizerInterval, onChunkReady, intervals, visTimers, graceReads>>
    /\ UNCHANGED <<appVars, uiVars, netVars, emitted, uploads, slog>>

\* The recorder task queued by stop(): the dataavailable event with what was
\* gathered since the last delivery, then the stop event (onstop runs _sendChunk()).
RecorderStop ==
    /\ recQueue # <<>>
    /\ Head(recQueue) = "stop"
    /\ \E sz \in BlobSizes :
         /\ sendChunk(Pushed(sz), FALSE, "onstop")
         /\ rlog' = [rlog EXCEPT !.nextBuf = IF sz > 0 THEN @ + 1 ELSE @,
                                 !.captured = @ \/ sz > 0,
                                 !.stopSize = sz]
    /\ recQueue' = Tail(recQueue)
    /\ UNCHANGED <<mediaRecorder, audioContext, stream, isRecording, chunkTimer,
                   visualizerInterval, onChunkReady, intervals, visTimers, graceReads>>
    /\ UNCHANGED <<appVars, uiVars, slog>>
    /\ UNCHANGED <<hasEventSource, esState, pollTimers, sessions, pollFetches,
                   startPc, stopFetches>>

\* The visualizerInterval callback (30 fps): samples the analyser and calls
\* onVisualizerData; it touches no field of the handler.
Visualize ==
    /\ visTimers > 0
    /\ UNCHANGED vars

\* -------------------------------------------------------------- MeetingApp

\* An optional field of an update payload: absent, or present with a value.
None == <<>>
Some(x) == <<x>>

\* Marks of the current session (reset when startMeeting gets its meeting id).
SLog0 == [ finalizes |-> 0,       \* handleMeetingComplete calls (finalize notifications)
           stopReqs  |-> 0,       \* POST .../stop requests issued
           pollBegun |-> FALSE,   \* startPolling ran
           errored   |-> {},      \* streams whose onerror handler ran
           lastFrom  |-> -1,      \* source of the last handleUpdate call: 0 a poll
                                  \* fetch, s > 0 the push stream s, -1 none yet
           tornDown  |-> FALSE,   \* stopMeeting ran its transport teardown
           dropped   |-> FALSE,   \* appendTranscript discarded an entry whose id was present
           lastQa    |-> <<>>,    \* qa_pairs field (None or Some) of the last payload
                                  \* without an error field handled since the last reset
           lastErr   |-> FALSE,   \* the last payload handled carried an error field
           failedUploads |-> 0 ]  \* upload requests that failed (non-2xx or rejected)

\* appendTranscript without the "already displayed" test: every entry is pushed.
appendTranscriptNoCheck(data, entries) == data \o entries

\* appendTranscript(entries): each entry whose id is not yet in the list is pushed
\* (and rendered), in the order of the payload.
RECURSIVE appendTranscript(_, _)
appendTranscript(data, entries) ==
    IF entries = <<>> THEN data
    ELSE LET entry == Head(entries)
             seen  == \E k \in 1..Len(data) : data[k].id = entry.id
         IN  appendTranscript(IF seen THEN data ELSE Append(data, entry), Tail(entries))

\* updateQADisplay(qaPairs): the container is cleared and rebuilt from qaPairs.
updateQADisplay(qaPairs) == qaPairs

\* handleMeetingComplete(): the completion screen is shown and the summary built;
\* log is the session's marks at the call.
handleMeetingComplete(log) ==
    /\ screen' = "completion"
    /\ slog' = [log EXCEPT !.finalizes = @ + 1]

\* Some entry of entries has an id that is in data, or that an earlier entry has.
Discards(data, entries) ==
    \/ \E i \in 1..Len(entries) : \E k \in 1..Len(data) : data[k].id = entries[i].id
    \/ \E i, j \in 1..Len(entries) : i < j /\ entries[i].id = entries[j].id

\* The marks after handleUpdate(d) has run its merge branch.
Marked(d, log) ==
    [log EXCEPT !.lastQa = d.qa_pairs,
                !.lastErr = FALSE,
                !.dropped = @ \/ (d.transcript # None
                                    /\ Discards(transcriptData, d.transcript[1]))]

\* handleUpdate without the test of the error field.
handleUpdateNoErrorTest(d, log) ==
    IF d.status = Some("completed")
    THEN /\ handleMeetingComplete([log EXCEPT !.lastQa = d.qa_pairs,
                                              !.lastErr = d.error # None])
         /\ UNCHANGED <<transcriptData, transcriptContainer, qaContainer,
                        participantCount>>
    ELSE /\ IF d.transcript # None /\ Len(d.transcript[1]) > 0
            THEN /\ transcriptData' = appendTranscript(transcriptData, d.transcript[1])
                 /\ transcriptContainer' =
                        appendTranscript(transcriptContainer, d.transcript[1])
            ELSE UNCHANGED <<transcriptData, transcriptContainer>>
         /\ IF d.qa_pairs # None /\ Len(d.qa_pairs[1]) > 0
            THEN qaContainer' = updateQADisplay(d.qa_pairs[1])
            ELSE UNCHANGED qaContainer
         /\ IF d.total_speakers # None /\ d.total_speakers[1] # 0
            THEN participantCount' = d.total_speakers[1]
            ELSE UNCHANGED participantCount
         /\ slog' = [Marked(d, log) EXCEPT !.lastErr = d.error # None]
         /\ UNCHANGED screen

\* handleUpdate(data); log is the session's marks at the call.
handleUpdate(d, log) ==
    IF d.error # None
    THEN /\ slog' = [log EXCEPT !.lastErr = TRUE]
         /\ UNCHANGED <<screen, transcriptData, transcriptContainer, qaContainer,
                        participantCount>>
    ELSE IF d.status = Some("completed")
    THEN /\ handleMeetingComplete([log EXCEPT !.lastQa = d.qa_pairs, !.lastErr = FALSE])
         /\ UNCHANGED <<transcriptData, transcriptContainer, qaContainer,
                        participantCount>>
    ELSE /\ IF d.transcript # None /\ Len(d.transcript[1]) > 0
            THEN /\ transcriptData' = appendTranscript(transcriptData, d.transcript[1])
                 /\ transcriptContainer' =
                        appendTranscript(transcriptContainer, d.transcript[1])
            ELSE UNCHANGED <<transcriptData, transcriptContainer>>
         /\ IF d.qa_pairs # None /\ Len(d.qa_pairs[1]) > 0
            THEN qaContainer' = updateQADisplay(d.qa_pairs[1])
            ELSE UNCHANGED qaContainer
         /\ IF d.total_speakers # None /\ d.total_speakers[1] # 0
            THEN participantCount' = d.total_speakers[1]
            ELSE UNCHANGED participantCount
         /\ slog' = Marked(d, log)
         /\ UNCHANGED screen

\* startPolling(): a new 3000 ms interval timer; the handle of an earlier timer
\* is overwritten, the timer itself keeps firing.
startPolling ==
    /\ pollingInterval' = "live"
    /\ pollTimers' = pollTimers + 1

\* startRealtimeUpdates() of the session whose stream gets number n: connectSSE()
\* when EventSource exists (throws: its constructor throws and the catch falls
\* back to polling), startPolling() otherwise.
startRealtimeUpdates(n, throws) ==
    IF hasEventSource /\ ~throws
    THEN /\ eventSource' = n
         /\ esState' = [esState EXCEPT ![n] = "connecting"]
         /\ UNCHANGED <<pollingInterval, pollTimers>>
    ELSE /\ startPolling
         /\ UNCHANGED <<eventSource, esState>>

\* ------------------------------------------------------------------- Init

Streams == 1..MaxSessions

Init ==
    /\ mediaRecorder = "null" /\ audioContext = "null" /\ stream = "null"
    /\ chunks = <<>> /\ isRecording = FALSE
    /\ chunkTimer = FALSE /\ visualizerInterval = FALSE /\ onChunkReady = "null"
    /\ intervals = 0 /\ visTimers = 0 /\ graceReads = 0 /\ recQueue = <<>>
    /\ meetingId = 0 /\ isActive = FALSE /\ eventSource = 0 /\ pollingInterval = "null"
    /\ transcriptData = <<>> /\ qaData = <<>>
    /\ screen = "setup" /\ startBtnDisabled = FALSE /\ stopBtnDisabled = FALSE
    /\ transcriptContainer = <<>> /\ qaContainer = <<>> /\ participantCount = 0
    /\ hasEventSource \in BOOLEAN
    /\ esState = [i \in Streams |-> "none"]
    /\ pollTimers = 0 /\ sessions = 0 /\ pollFetches = 0 /\ startPc = "idle"
    /\ stopFetches = 0 /\ uploadFetches = 0
    /\ emitted = <<>> /\ uploads = <<>> /\ rlog = RLog0 /\ slog = SLog0

\* ------------------------------------------- the AudioHandler used on its own

\* await handler.initialize() by a caller other than the MeetingApp.
CapInitialize ==
    /\ mediaRecorder = "null"
    /\ \E outcome \in InitOutcomes : initialize(outcome)
    /\ UNCHANGED <<chunks, isRecording, chunkTimer, visualizerInterval, onChunkReady,
                   intervals, visTimers, graceReads, recQueue>>
    /\ UNCHANGED <<appVars, uiVars, netVars, obsVars>>

\* handler.startRecording(listener) once the handler is initialized.
CapStart ==
    /\ mediaRecorder = "inactive" /\ stream = "live"
    /\ startRecording("listener")
    /\ UNCHANGED <<audioContext, stream, graceReads, recQueue>>
    /\ UNCHANGED <<appVars, uiVars, netVars, uploads, slog>>

\* handler.stopRecording(), at any time and any number of times.
CapStop ==
    /\ rlog.stopCalls < MaxStops
    /\ stopRecording
    /\ UNCHANGED <<appVars, uiVars, slog>>
    /\ UNCHANGED <<hasEventSource, esState, pollTimers, sessions, pollFetches,
                   startPc, stopFetches>>

NextCapture ==
    \/ CapInitialize \/ CapStart \/ CapStop
    \/ Tick \/ DataAvailable \/ GraceRead \/ RecorderStop \/ Visualize

SpecCapture == Init /\ [][NextCapture]_vars

\* stopRecording() when mediaRecorder.stop() raises: the statements before the call
\* have run (both timers cleared), the exception leaves the method at the call, and
\* the recorder keeps its state.
stopRecordingFlushFails ==
    /\ mediaRecorder = "recording"
    /\ isRecording' = FALSE
    /\ chunkTimer' = FALSE
    /\ intervals' = IF chunkTimer THEN intervals - 1 ELSE intervals
    /\ visualizerInterval' = FALSE
    /\ visTimers' = IF visualizerInterval THEN visTimers - 1 ELSE visTimers
    /\ rlog' = [rlog EXCEPT !.stopCalls = @ + 1]
    /\ UNCHANGED <<mediaRecorder, stream, audioContext, chunks, recQueue, onChunkReady,
                   graceReads>>
    /\ UNCHANGED <<emitted, uploads, uploadFetches>>

\* handler.stopRecording() whose final flush fails.
CapStopFails ==
    /\ rlog.stopCalls < MaxStops
    /\ stopRecordingFlushFails
    /\ UNCHANGED <<appVars, uiVars, slog>>
    /\ UNCHANGED <<hasEventSource, esState, pollTimers, sessions, pollFetches,
                   startPc, stopFetches>>

\* The AudioHandler on its own, with a recorder whose stop() can raise.
NextRelease ==
    \/ CapInitialize \/ CapStart \/ CapStop \/ CapStopFails
    \/ Tick \/ DataAvailable \/ GraceRead \/ RecorderStop \/ Visualize

SpecRelease == Init /\ [][NextRelease]_vars

\* ----------------------------------------------------- MeetingApp actions

\* Transcript entries and QA items the server sends.
E1a == [id |-> 1, text |-> "a"]
E1b == [id |-> 1, text |-> "b"]
E2  == [id |-> 2, text |-> "c"]

Payload(err, st, t, q, n) ==
    [error |-> err, status |-> st, transcript |-> t, qa_pairs |-> q, total_speakers |-> n]

\* Values of the optional fields of a payload.
TranscriptFields ==
    { None, Some(<<>>), Some(<<E1a>>), Some(<<E2>>), Some(<<E1b, E2>>),
      Some(<<E2, E1a>>), Some(<<E2, E2>>) }
QaFields == { None, Some(<<>>), Some(<<"q1">>), Some(<<"q2", "q1">>) }
SpeakerFields == { None, Some(0), Some(1), Some(2) }

\* The payloads the reconciler is explored under: every combination of transcript,
\* qa_pairs and total_speakers, and two of these bodies under every combination of
\* the error and status fields.
AllUpdates ==
    { Payload(None, None, t, q, n) :
        t \in TranscriptFields, q \in QaFields, n \in SpeakerFields }
    \cup
    { Payload(err, st, b[1], b[2], b[3]) :
        err \in {None, Some("failed")},
        st  \in {None, Some("active"), Some("completed")},
        b   \in { <<None, None, None>>,
                  <<Some(<<E2>>), Some(<<"q2", "q1">>), Some(1)>> } }

\* The payloads the transports deliver when the session as a whole is explored:
\* one body of content, with and without the error and status fields.
Updates ==
    { Payload(err, st, Some(<<E1a>>), Some(<<"q1">>), Some(2)) :
        err \in {None, Some("failed")},
        st  \in {None, Some("completed")} }

\* A payload the server may still send: at most MaxFinalizes of one session carry
\* status "completed".
Sendable(d) ==
    (d.error = None /\ d.status = Some("completed")) => slog.finalizes < MaxFinalizes

\* Click on Start: startMeeting() up to its first await (initialize()).
StartMeeting ==
    /\ screen = "setup" /\ ~startBtnDisabled
    /\ sessions < MaxSessions
    /\ startBtnDisabled' = TRUE
    /\ startPc' = "initializing"
    /\ UNCHANGED <<audioVars, appVars, obsVars>>
    /\ UNCHANGED <<screen, stopBtnDisabled, transcriptContainer, qaContainer,
                   participantCount>>
    /\ UNCHANGED <<hasEventSource, esState, pollTimers, sessions, pollFetches,
                   stopFetches, uploadFetches>>

\* startMeeting() that sends the start request whether initialize() failed or not.
InitializeDoneNoAbort ==
    /\ startPc = "initializing"
    /\ \E outcome \in InitOutcomes : initialize(outcome)
    /\ startPc' = "creating"
    /\ UNCHANGED <<chunks, isRecording, chunkTimer, visualizerInterval, onChunkReady,
                   intervals, visTimers, graceReads, recQueue>>
    /\ UNCHANGED <<appVars, obsVars, uiVars>>
    /\ UNCHANGED <<hasEventSource, esState, pollTimers, sessions, pollFetches,
                   stopFetches, uploadFetches>>

\* startMeeting() resumes after await initialize(): the start request is sent, or
\* the catch block re-enables the button.
InitializeDone ==
    /\ startPc = "initializing"
    /\ \E outcome \in InitOutcomes :
         /\ initialize(outcome)
         /\ IF outcome = "ok"
            THEN startPc' = "creating" /\ UNCHANGED startBtnDisabled
            ELSE startPc' = "idle" /\ startBtnDisabled' = FALSE
    /\ UNCHANGED <<chunks, isRecording, chunkTimer, visualizerInterval, onChunkReady,
                   intervals, visTimers, graceReads, recQueue>>
    /\ UNCHANGED <<appVars, obsVars>>
    /\ UNCHANGED <<screen, stopBtnDisabled, transcriptContainer, qaContainer,
                   participantCount>>
    /\ UNCHANGED <<hasEventSource, esState, pollTimers, sessions, pollFetches,
                   stopFetches, uploadFetches>>

\* startMeeting() resumes after the start request: on a 2xx answer the meeting id is
\* stored, recording and the realtime updates start and isActive is set; otherwise
\* the catch block re-enables the button.
StartResponse ==
    /\ startPc = "creating"
    /\ startPc' = "idle"
    /\ \/ /\ startBtnDisabled' = FALSE
          /\ UNCHANGED <<audioVars, appVars, obsVars, screen>>
          /\ UNCHANGED <<esState, pollTimers, sessions>>
       \/ \E throws \in BOOLEAN :
          /\ sessions' = sessions + 1
          /\ meetingId' = sessions + 1
          /\ screen' = "meeting"
          /\ startRecording("upload")
          /\ startRealtimeUpdates(sessions + 1, throws)
          /\ isActive' = TRUE
          /\ uploads' = <<>>
          /\ slog' = [SLog0 EXCEPT !.pollBegun = ~hasEventSource \/ throws]
          /\ UNCHANGED <<audioContext, stream, graceReads, recQueue>>
          /\ UNCHANGED <<transcriptData, qaData, startBtnDisabled>>
    /\ UNCHANGED <<stopBtnDisabled, transcriptContainer, qaContainer, participantCount>>
    /\ UNCHANGED <<hasEventSource, pollFetches, stopFetches, uploadFetches>>

\* The browser opens the connection of stream s.
SSEOpen(s) ==
    /\ esState[s] = "connecting"
    /\ esState' = [esState EXCEPT ![s] = "open"]
    /\ UNCHANGED <<audioVars, appVars, uiVars, obsVars>>
    /\ UNCHANGED <<hasEventSource, pollTimers, sessions, pollFetches, startPc,
                   stopFetches, uploadFetches>>

\* eventSource.onmessage of stream s with a payload of U: the payload is parsed and
\* given to handleUpdate.
OnMessage(s, U) ==
    /\ esState[s] = "open"
    /\ \E d \in U :
         /\ Sendable(d)
         /\ handleUpdate(d, [slog EXCEPT !.lastFrom = s])
    /\ UNCHANGED <<audioVars, netVars, emitted, uploads, rlog>>
    /\ UNCHANGED <<meetingId, isActive, eventSource, pollingInterval, qaData>>
    /\ UNCHANGED <<startBtnDisabled, stopBtnDisabled>>

SSEMessage(s) == OnMessage(s, Updates)

\* eventSource.onerror of stream s: the browser has set the stream to reconnect
\* ("connecting") or has failed it ("closed"); the handler closes this.eventSource
\* and starts polling.
SSEError(s) ==
    /\ esState[s] \in {"connecting", "open"}
    /\ pollTimers < MaxTimers
    /\ \E fate \in {"connecting", "closed"} :
         esState' = [[esState EXCEPT ![s] = fate] EXCEPT ![eventSource] = "closed"]
    /\ startPolling
    /\ slog' = [slog EXCEPT !.errored = @ \cup {s}, !.pollBegun = TRUE]
    /\ UNCHANGED <<audioVars, uiVars, emitted, uploads, rlog>>
    /\ UNCHANGED <<meetingId, isActive, eventSource, transcriptData, qaData>>
    /\ UNCHANGED <<hasEventSource, sessions, pollFetches, startPc, stopFetches,
                   uploadFetches>>

\* A poll timer fires: GET .../minutes is sent.
PollTick ==
    /\ pollTimers > 0
    /\ pollFetches < MaxPolls
    /\ pollFetches' = pollFetches + 1
    /\ UNCHANGED <<audioVars, appVars, uiVars, obsVars>>
    /\ UNCHANGED <<hasEventSource, esState, pollTimers, sessions, startPc, stopFetches,
                   uploadFetches>>

\* OnPollResponse with a re-promotion: a failed poll fetch reconnects the push
\* stream the client holds.
OnPollResponseRepromote(U) ==
    /\ pollFetches > 0
    /\ pollFetches' = pollFetches - 1
    /\ \/ /\ esState' = IF eventSource # 0
                         THEN [esState EXCEPT ![eventSource] = "connecting"]
                         ELSE esState
          /\ UNCHANGED <<uiVars, transcriptData, slog>>
       \/ /\ \E d \in U :
               /\ Sendable(d)
               /\ handleUpdate(d, [slog EXCEPT !.lastFrom = 0])
          /\ UNCHANGED <<startBtnDisabled, stopBtnDisabled, esState>>
    /\ UNCHANGED <<audioVars, emitted, uploads, rlog>>
    /\ UNCHANGED <<meetingId, isActive, eventSource, pollingInterval, qaData>>
    /\ UNCHANGED <<hasEventSource, pollTimers, sessions, startPc, stopFetches,
                   uploadFetches>>

\* A poll fetch settles: a 2xx answer (a payload of U) is given to handleUpdate,
\* anything else is dropped (logged).
OnPollResponse(U) ==
    /\ pollFetches > 0
    /\ pollFetches' = pollFetches - 1
    /\ \/ UNCHANGED <<uiVars, transcriptData, slog>>
       \/ /\ \E d \in U :
               /\ Sendable(d)
               /\ handleUpdate(d, [slog EXCEPT !.lastFrom = 0])
          /\ UNCHANGED <<startBtnDisabled, stopBtnDisabled>>
    /\ UNCHANGED <<audioVars, emitted, uploads, rlog>>
    /\ UNCHANGED <<meetingId, isActive, eventSource, pollingInterval, qaData>>
    /\ UNCHANGED <<hasEventSource, esState, pollTimers, sessions, startPc, stopFetches,
                   uploadFetches>>

PollResponse == OnPollResponse(Updates)

\* stopMeeting() up to its await: the isActive guard, stopRecording(), the transport
\* teardown and the stop request.
StopMeeting ==
    /\ isActive
    /\ rlog.stopCalls < MaxStops
    /\ stopBtnDisabled' = TRUE
    /\ stopRecording
    /\ esState' = IF eventSource # 0
                  THEN [esState EXCEPT ![eventSource] = "closed"]
                  ELSE esState
    /\ pollingInterval' = IF pollingInterval = "live" THEN "cleared" ELSE pollingInterval
    /\ pollTimers' = IF pollingInterval = "live" THEN pollTimers - 1 ELSE pollTimers
    /\ stopFetches' = stopFetches + 1
    /\ slog' = [slog EXCEPT !.stopReqs = @ + 1, !.tornDown = TRUE]
    /\ UNCHANGED <<meetingId, isActive, eventSource, transcriptData, qaData>>
    /\ UNCHANGED <<screen, startBtnDisabled, transcriptContainer, qaContainer,
                   participantCount>>
    /\ UNCHANGED <<hasEventSource, sessions, pollFetches, startPc>>

\* stopMeeting() resumes after the stop request: handleMeetingComplete on a 2xx
\* answer, the catch block otherwise; then isActive = false.
StopResponse ==
    /\ stopFetches > 0
    /\ stopFetches' = stopFetches - 1
    /\ \/ handleMeetingComplete(slog) /\ UNCHANGED stopBtnDisabled
       \/ stopBtnDisabled' = FALSE /\ UNCHANGED <<screen, slog>>
    /\ isActive' = FALSE
    /\ UNCHANGED <<audioVars, emitted, uploads, rlog>>
    /\ UNCHANGED <<meetingId, eventSource, pollingInterval, transcriptData, qaData>>
    /\ UNCHANGED <<startBtnDisabled, transcriptContainer, qaContainer, participantCount>>
    /\ UNCHANGED <<hasEventSource, esState, pollTimers, sessions, pollFetches, startPc,
                   uploadFetches>>

\* Click on New Meeting (completion screen): reset().
Reset ==
    /\ screen = "completion"
    /\ meetingId' = 0
    /\ transcriptData' = <<>>
    /\ qaData' = <<>>
    /\ transcriptContainer' = <<>>
    /\ qaContainer' = <<>>
    /\ stopBtnDisabled' = FALSE
    /\ startBtnDisabled' = FALSE
    /\ screen' = "setup"
    /\ slog' = [slog EXCEPT !.lastQa = None]
    /\ UNCHANGED <<audioVars, netVars, emitted, uploads, rlog>>
    /\ UNCHANGED <<isActive, eventSource, pollingInterval, participantCount>>

\* An upload request that repeats itself when it fails.
UploadDoneRetry ==
    /\ uploadFetches > 0
    /\ \E ok \in BOOLEAN :
         IF ok
         THEN uploadFetches' = uploadFetches - 1 /\ UNCHANGED <<uploads, slog>>
         ELSE /\ uploads' = Append(uploads, uploads[Len(uploads)])
              /\ slog' = [slog EXCEPT !.failedUploads = @ + 1]
              /\ UNCHANGED uploadFetches
    /\ UNCHANGED <<audioVars, appVars, uiVars, emitted, rlog>>
    /\ UNCHANGED <<hasEventSource, esState, pollTimers, sessions, pollFetches, startPc,
                   stopFetches>>

\* An upload request settles: on a failure (ok = FALSE) the error is logged,
\* nothing else.
UploadDone ==
    /\ uploadFetches > 0
    /\ uploadFetches' = uploadFetches - 1
    /\ \E ok \in BOOLEAN :
         slog' = IF ok THEN slog ELSE [slog EXCEPT !.failedUploads = @ + 1]
    /\ UNCHANGED <<audioVars, appVars, uiVars, emitted, uploads, rlog>>
    /\ UNCHANGED <<hasEventSource, esState, pollTimers, sessions, pollFetches, startPc,
                   stopFetches>>

Next ==
    \/ StartMeeting \/ InitializeDone \/ StartResponse
    \/ Tick \/ DataAvailable \/ GraceRead \/ RecorderStop \/ Visualize
    \/ \E s \in Streams : SSEOpen(s) \/ SSEMessage(s) \/ SSEError(s)
    \/ PollTick \/ PollResponse
    \/ StopMeeting \/ StopResponse \/ Reset \/ UploadDone

Spec == Init /\ [][Next]_vars

\* The sync client and the session life cycle, the capture callbacks quiet.
NextSync ==
    \/ StartMeeting \/ InitializeDone \/ StartResponse
    \/ \E s \in Streams : SSEOpen(s) \/ SSEMessage(s) \/ SSEError(s)
    \/ PollTick \/ PollResponse
    \/ StopMeeting \/ StopResponse \/ Reset

SpecSync == Init /\ [][NextSync]_vars

\* Capture and upload from the start of a session to its end (no reset), the
\* transports quiet.
NextSession ==
    \/ StartMeeting \/ InitializeDone \/ StartResponse
    \/ Tick \/ DataAvailable \/ GraceRead \/ RecorderStop \/ Visualize
    \/ StopMeeting \/ StopResponse \/ UploadDone

SpecSession == Init /\ [][NextSession]_vars

\* The reconciler under every payload of AllUpdates, delivered by the push stream
\* (a polled payload goes through the same handleUpdate).
RichMessage(s) == OnMessage(s, AllUpdates)

NextReconcile ==
    \/ StartMeeting \/ InitializeDone \/ StartResponse
    \/ \E s \in Streams : SSEOpen(s) \/ RichMessage(s)
    \/ Reset

SpecReconcile == Init /\ [][NextReconcile]_vars

\* ------------------------------------------------------- capture pipeline claims

\* Number of chunks of this recording handed to onChunkReady with isFinal = true.
Finals == Cardinality({i \in 1..Len(emitted) : emitted[i].isFinal})

\* The recording is over: startRecording and stopRecording were called and every
\* callback they left behind (recorder tasks, grace-delay reads) has run.
RecordingOver ==
    /\ onChunkReady # "null"
    /\ rlog.stopCalls > 0
    /\ recQueue = <<>>
    /\ graceReads = 0

\* C1: when a recording session is over, exactly one chunk was emitted with
\* isFinal = true if any audio data was captured, and none if no data was captured.
C1_ExactlyOneFinal ==
    RecordingOver => Finals = (IF rlog.captured THEN 1 ELSE 0)

\* C2: a chunk emitted with isFinal = true is the last chunk emitted in its session
\* (so there is at most one, and nothing follows it).
C2_FinalIsLast ==
    \A i \in 1..Len(emitted) : emitted[i].isFinal => i = Len(emitted)

\* C5: a stopRecording call that is not the first since startRecording changes
\* nothing: no chunk is emitted and every field of the handler keeps its value.
C5_SecondStopNoOp ==
    [][(onChunkReady # "null" /\ rlog.stopCalls >= 1
          /\ rlog'.stopCalls = rlog.stopCalls + 1)
         => UNCHANGED <<audioVars, emitted, uploads>>]_vars

\* ------------------------------------------------------------ session claims

\* The is_final values of the upload requests of this session, in invocation order.
UploadFlags == [i \in 1..Len(uploads) |-> uploads[i].is_final]

\* The end-to-end scenario has run to its end: the meeting started, two ticks each
\* produced a non-empty chunk before the stop, stopMeeting was invoked once while
\* the encoder still held audio, and every callback left behind has run.
EndToEndDone ==
    /\ meetingId # 0
    /\ rlog.ticks = 2
    /\ rlog.sizes = <<1, 1>>
    /\ Len(emitted) >= 2
    /\ \A i \in 1..2 : emitted[i].by = "grace" /\ emitted[i].stops = 0
    /\ rlog.stopCalls = 1
    /\ rlog.stopSize = 1
    /\ recQueue = <<>>
    /\ graceReads = 0

\* C3: at the end of the end-to-end scenario uploadAudioChunk was invoked exactly
\* three times, with is_final false, false, true in that order.
C3_EndToEndUploads ==
    EndToEndDone => UploadFlags = <<FALSE, FALSE, TRUE>>

\* C4: within one session the finalize notification (handleMeetingComplete) is
\* emitted at most once.
C4_SingleFinalize == slog.finalizes <= 1

\* No push stream is connecting or open and no poll timer fires.
NoTransport ==
    /\ \A s \in Streams : esState[s] \notin {"connecting", "open"}
    /\ pollTimers = 0

\* C6: once stopMeeting has run its teardown no transport is left, and redundant
\* stopMeeting invocations add nothing: one stop request and one teardown per
\* session, at most one finalize notification.
C6_StopIdempotent ==
    /\ slog.tornDown => NoTransport
    /\ slog.stopReqs <= 1
    /\ slog.tornDown => slog.finalizes <= 1

\* ---------------------------------------------------------- reconciler claims

\* No two entries of the list have the same id.
UniqueIds(data) ==
    \A i, j \in 1..Len(data) : data[i].id = data[j].id => i = j

\* The entries a payload can carry.
Entries == {E1a, E1b, E2}

\* C7: transcriptData and the rendered transcript never hold two entries with the
\* same id, and applying an entry whose id is present leaves the transcript as it is.
C7_TranscriptDedup ==
    /\ UniqueIds(transcriptData)
    /\ UniqueIds(transcriptContainer)
    /\ \A e \in Entries :
         (\E k \in 1..Len(transcriptData) : transcriptData[k].id = e.id)
            => appendTranscript(transcriptData, <<e>>) = transcriptData

\* C7 witness: an update brought an entry whose id was present, it was discarded,
\* and the transcript holds both ids once.
C7_Witness ==
    /\ slog.dropped
    /\ Len(transcriptData) = 2
    /\ transcriptContainer = transcriptData

\* C8: after handleUpdate on a payload without an error field that carries a
\* qa_pairs list, the displayed QA list is exactly that list.
C8_QaFullReplace ==
    slog.lastQa # None => qaContainer = slog.lastQa[1]

\* --------------------------------------------------------- sync client claims

\* A stream that is connecting or open.
Live(st) == st \in {"connecting", "open"}

\* C9: when a push stream raises an error, the handler's one close() call closes
\* that stream, a poll timer runs afterwards, and no update of that stream is given
\* to handleUpdate any more.
C9_FallbackTransition ==
    [][\A s \in Streams :
         /\ SSEError(s) => /\ esState'[s] = "closed"
                           /\ pollingInterval' = "live" /\ pollTimers' > 0
         /\ s \in slog.errored => ~SSEMessage(s)]_vars

\* The transport mode the fields of the client stand for.
Mode ==
    IF pollingInterval = "live" THEN "Polling"
    ELSE IF eventSource # 0 /\ esState[eventSource] = "connecting" THEN "ConnectingPush"
    ELSE IF eventSource # 0 /\ esState[eventSource] = "open" THEN "StreamingPush"
    ELSE "Disconnected"

\* C10: inside a session the transport mode never moves back: streaming does not
\* return to connecting, polling is left only by the teardown, and once polling has
\* begun no push stream is created or reopened.
C10_PollingIsTerminal ==
    [][sessions' = sessions =>
         /\ Mode = "StreamingPush" => Mode' # "ConnectingPush"
         /\ Mode = "Polling" => Mode' \in {"Polling", "Disconnected"}
         /\ slog.pollBegun =>
              /\ eventSource' = eventSource
              /\ \A s \in Streams : ~Live(esState[s]) => ~Live(esState'[s])]_vars

\* C10 witness: the stream of the session raised an error while it was open, the
\* client polls, and a polled update has been handled.
C10_Witness ==
    /\ Mode = "Polling"
    /\ slog.pollBegun
    /\ eventSource # 0 /\ eventSource \in slog.errored
    /\ esState[eventSource] = "closed"
    /\ slog.lastFrom = 0

\* ------------------------------------------------- capture pipeline claims, II

\* The audio source is released: no track of the stream is live and the audio
\* context does not run.
Released ==
    /\ stream \in {"null", "ended"}
    /\ audioContext \in {"null", "closed"}

\* C11: whenever a stopRecording call finishes, on whatever exit path, the stream
\* tracks are stopped and the audio context is closed.
C11_ReleaseOnEveryExit ==
    [][rlog'.stopCalls = rlog.stopCalls + 1 => Released']_vars

\* The buffers of the emitted chunks, in emission order.
RECURSIVE Flat(_)
Flat(cs) == IF cs = <<>> THEN <<>> ELSE Head(cs).bufs \o Flat(Tail(cs))

\* C12: every chunk handed to onChunkReady holds at least one buffer, and every
\* buffer stored or emitted is one the encoder delivered with a size above zero
\* (their numbers lie below rlog.nextBuf); a flush that finds nothing emits nothing.
C12_NonEmptyChunks ==
    /\ \A i \in 1..Len(emitted) : emitted[i].bufs # <<>>
    /\ \A k \in 1..Len(Flat(emitted)) : Flat(emitted)[k] < rlog.nextBuf
    /\ \A k \in 1..Len(chunks) : chunks[k] < rlog.nextBuf

\* C12 witness: the encoder delivered an empty blob to a tick and to the stop
\* flush, the reads that found nothing emitted nothing, and the one non-empty
\* buffer went out as one chunk.
C12_Witness ==
    /\ rlog.sizes = <<0, 1>>
    /\ rlog.stopSize = 0
    /\ recQueue = <<>> /\ graceReads = 0
    /\ Len(emitted) = 1

\* C13: each delivered buffer is in at most one emitted chunk and the buffers go
\* out in delivery order: the emitted buffers followed by the buffered ones are
\* strictly increasing.
C13_NoOverlap ==
    LET all == Flat(emitted) \o chunks
    IN  \A i, j \in 1..Len(all) : i < j => all[i] < all[j]

\* C13 witness: two chunks were emitted, one of them made of two buffers, and the
\* recording is over.
C13_Witness ==
    /\ Len(emitted) = 2
    /\ \E i \in 1..2 : Len(emitted[i].bufs) = 2
    /\ RecordingOver

\* C14: once stopRecording has returned, neither interval timer is left to fire
\* and no grace-delay read scheduled by an earlier tick runs.
C14_NoTimerCallbackAfterStop ==
    [][(onChunkReady # "null" /\ rlog.stopCalls >= 1)
         => (intervals = 0 /\ visTimers = 0 /\ ~GraceRead)]_vars

\* ------------------------------------------------------------ session claims, II

\* A stop request was answered and no finalize notification came with the answer:
\* the request was rejected.
StopRejected ==
    /\ stopFetches' = stopFetches - 1
    /\ slog'.finalizes = slog.finalizes

\* C15: when the stop request is rejected the completion screen is not shown, the
\* stop control is enabled again, and the session is still active, so that the
\* next stopMeeting passes its guard and sends the request again.
C15_FinalizeRetryable ==
    [][StopRejected => (screen' = screen /\ ~stopBtnDisabled' /\ isActive')]_vars

\* ------------------------------------------------------ reconciler claims, II

\* The step is handleUpdate(d), called by the onmessage handler of stream s.
Handles(s, d) ==
    /\ esState[s] = "open"
    /\ Sendable(d)
    /\ handleUpdate(d, [slog EXCEPT !.lastFrom = s])
    /\ UNCHANGED <<meetingId, sessions, startBtnDisabled, stopBtnDisabled>>

\* C16: after handleUpdate on a payload without an error field that carries
\* total_speakers, the participant count shows that value, whatever else the payload
\* carries; a payload without total_speakers leaves the count as it is.
C16_SpeakerCount ==
    [][\A s \in Streams : \A d \in AllUpdates :
         Handles(s, d) =>
           /\ (d.error = None /\ d.total_speakers # None)
                 => participantCount' = d.total_speakers[1]
           /\ d.total_speakers = None => participantCount' = participantCount]_vars

\* The payloads that carry an error field.
ErrorUpdates == {d \in AllUpdates : d.error # None}

RECURSIVE Kept(_, _, _)
Kept(data, entries, i) ==
    IF i > Len(entries) THEN <<>>
    ELSE LET fresh == /\ \A k \in 1..Len(data) : data[k].id # entries[i].id
                      /\ \A j \in 1..(i - 1) : entries[j].id # entries[i].id
         IN  (IF fresh THEN <<entries[i]>> ELSE <<>>) \o Kept(data, entries, i + 1)

\* C18: after handleUpdate on a payload without an error field that carries a
\* transcript, the transcript (kept and rendered) is the previous one followed by
\* the payload's not-yet-present entries in arrival order.
C18_AppendOnly ==
    [][\A s \in Streams : \A d \in AllUpdates :
         (Handles(s, d) /\ d.error = None /\ d.transcript # None) =>
           LET merged == transcriptData \o Kept(transcriptData, d.transcript[1], 1)
           IN  transcriptData' = merged /\ transcriptContainer' = merged]_vars

\* ----------------------------------------------------------- uploader claims

\* C19: the upload requests of a session are the chunks the pipeline emitted, one
\* request each and in order, whether requests failed or not; and when a request
\* settles, failed or not, nothing but the number of requests in flight (and the
\* count of failures) changes.
C19_UploadsNotRetried ==
    [][/\ Len(uploads') <= Len(emitted')
       /\ \A i \in 1..Len(uploads') :
            /\ uploads'[i].bufs = emitted'[i].bufs
            /\ uploads'[i].is_final = emitted'[i].isFinal
       /\ uploadFetches' < uploadFetches =>
            UNCHANGED <<audioVars, appVars, uiVars, emitted, uploads, rlog, esState,
                        pollTimers, sessions, pollFetches, startPc, stopFetches>>]_vars

\* C19 witness: upload requests failed, none is in flight, and the session went on
\* to its end: three chunks emitted, three requests made, the stop request
\* answered.
C19_Witness ==
    /\ slog.failedUploads >= 2
    /\ uploadFetches = 0
    /\ Len(emitted) = 3 /\ Len(uploads) = 3
    /\ slog.stopReqs = 1 /\ stopFetches = 0

\* -------------------------------------------------------- start sequence claims

\* The handler holds a recorder that initialize() has just built.
Initialized ==
    mediaRecorder = "inactive" /\ stream = "live" /\ audioContext = "running"

\* C20: when startMeeting resumes after initialize() and the handler holds no
\* freshly built recorder (initialize failed), the start sequence is over: no start
\* request is sent and no meeting created, recording and transports are as they
\* were, isActive keeps its value (false in a first session), and the start
\* control is enabled again.
C20_DeviceErrorAborts ==
    [][(startPc = "initializing" /\ startPc' # "initializing" /\ ~Initialized') =>
         /\ startPc' = "idle" /\ sessions' = sessions /\ meetingId' = meetingId
         /\ UNCHANGED <<isRecording, chunkTimer, intervals, visTimers, recQueue,
                        onChunkReady>>
         /\ UNCHANGED <<eventSource, esState, pollingInterval, pollTimers>>
         /\ isActive' = isActive /\ (sessions = 0 => ~isActive')
         /\ screen' = screen /\ ~startBtnDisabled']_vars

\* C20 witness: initialize() failed in a start sequence (the stream was acquired,
\* no recorder was built) and the page is back at an enabled start control with
\* nothing started.
C20_Witness ==
    /\ mediaRecorder = "null" /\ stream = "live"
    /\ startPc = "idle" /\ sessions = 0
    /\ ~isRecording /\ ~isActive /\ pollTimers = 0 /\ eventSource = 0
    /\ screen = "setup" /\ ~startBtnDisabled

\* ------------------------------------------------------ sync client claims, II

\* Number of push streams that are open.
OpenStreams == Cardinality({s \in Streams : esState[s] = "open"})

\* C21: at every reachable state at most one sync transport is live: the open push
\* streams and the poll timers that still fire are at most one together.
C21_OneTransport == OpenStreams + pollTimers <= 1

\* C22: once stopMeeting has run its teardown, no step of that session other than
\* reset changes the transcript, the QA list or the participant count, and only
\* the answer to the stop request emits a finalize notification: a poll fetch in
\* flight at the stop changes nothing when it resolves.
C22_NoUpdateAfterTeardown ==
    [][(slog.tornDown /\ sessions' = sessions /\ ~Reset) =>
         /\ UNCHANGED <<transcriptData, transcriptContainer, qaContainer,
                        participantCount>>
         /\ stopFetches' = stopFetches => slog'.finalizes = slog.finalizes]_vars

====
